---- MODULE Spec2Model ----
(***************************************************************************)
(* State-machine model of src/index.js: a Telegram bot that keeps IP       *)
(* addresses and CIDR blocks in one SQLite table.                          *)
(*                                                                         *)
(* Texts are sequences of tokens.  A token is one character (" ", "\n",    *)
(* "/", a digit) or one command word ("/add", "/list", ...), so trimming,  *)
(* line splitting, regular-expression matching and CIDR parsing are all    *)
(* computed on the text and none of them is the identity.                  *)
(*                                                                         *)
(* Addresses are the one-digit strings "0".."3" (a 2-bit address space)    *)
(* and a CIDR block is <digit> "/" <prefix length 0..2>.                   *)
(*                                                                         *)
(* Every database call and every promise is an in-flight operation in      *)
(* `ops`; it completes in a later step, atomically with its callback.      *)
(***************************************************************************)
EXTENDS Integers, Sequences, FiniteSets, Bags, TLC

VARIABLES
  store,         \* table ip_addresses, in rowid order: a sequence of rows
  nextId,        \* the next AUTOINCREMENT id
  listPage,      \* listPage: chat -> page (a partial function, as the JS object)
  batchAddData,  \* batchAddData: chat -> {userId, addresses, messageId}
  ops,           \* bag of in-flight database calls and promises
  msgSeq,        \* message_id of the last confirmation prompt Telegram accepted
  tokens,        \* chat -> pagination callback tokens attached to rendered pages
  out,           \* what the last step sent through the bot API, in order
  ev,            \* the event or completion the last step handled
  threw          \* whether the last step's handler raised an exception

vars == <<store, nextId, listPage, batchAddData, ops, msgSeq, tokens, out, ev, threw>>

\* ------------------------------------------------------------------ bounds

\* rows ever inserted by the running process (ids are never reused)
MaxRecords == 3
\* operations in flight at the same time
MaxOps == 2
\* confirmation prompts sent
MaxPrompts == 2
\* rows already in database.db when the process starts (SpecList)
MaxStored == 25

\* src/index.js:104
limit == 10

AllChats == {"c1", "c2"}
Users == {"u1", "u2"}

\* ------------------------------------------------------------------- texts

NULL == <<"<null>">>
NoText == <<"<undefined>">>
WS == {" ", "\n"}

RECURSIVE TrimStart(_)
TrimStart(s) ==
  IF s = <<>> THEN s
  ELSE IF Head(s) \in WS THEN TrimStart(Tail(s)) ELSE s

RECURSIVE TrimEnd(_)
TrimEnd(s) ==
  IF s = <<>> THEN s
  ELSE IF s[Len(s)] \in WS THEN TrimEnd(SubSeq(s, 1, Len(s) - 1)) ELSE s

\* String.prototype.trim
trim(s) == TrimEnd(TrimStart(s))

\* the longest prefix holding no line break: what `.+` takes
RECURSIVE UpToNewline(_)
UpToNewline(s) ==
  IF s = <<>> \/ Head(s) = "\n" THEN <<>>
  ELSE <<Head(s)>> \o UpToNewline(Tail(s))

\* text.split('\n')
RECURSIVE split(_)
split(s) ==
  LET first == UpToNewline(s)
  IN  IF Len(first) = Len(s) THEN <<first>>
      ELSE <<first>> \o split(SubSeq(s, Len(first) + 2, Len(s)))

RECURSIVE MapTrim(_)
MapTrim(ls) ==
  IF ls = <<>> THEN <<>> ELSE <<trim(Head(ls))>> \o MapTrim(Tail(ls))

RECURSIVE FilterNonEmpty(_)
FilterNonEmpty(ls) ==
  IF ls = <<>> THEN <<>>
  ELSE IF Head(ls) = <<>> THEN FilterNonEmpty(Tail(ls))
  ELSE <<Head(ls)>> \o FilterNonEmpty(Tail(ls))

\* text.split('\n').map(line => line.trim()).filter(line => line)
SplitLines(text) == FilterNonEmpty(MapTrim(split(text)))

\* /<cmd>/ : the text holds the command word
Matches(text, cmd) == \E i \in 1..Len(text) : text[i] = cmd

\* /<cmd> (.+)/ : the command word, one space, at least one character of the line
ArgAt(text, cmd, i) ==
  /\ i + 2 <= Len(text)
  /\ text[i] = cmd
  /\ text[i + 1] = " "
  /\ text[i + 2] # "\n"

MatchesArg(text, cmd) == \E i \in 1..Len(text) : ArgAt(text, cmd, i)

\* match[1] of the leftmost match
MatchArg(text, cmd) ==
  LET i == CHOOSE j \in 1..Len(text) :
             /\ ArgAt(text, cmd, j)
             /\ \A k \in 1..(j - 1) : ~ArgAt(text, cmd, k)
  IN  UpToNewline(SubSeq(text, i + 2, Len(text)))

\* ------------------------------------------------------------ CIDR library

AddrDigits == {"0", "1", "2", "3"}
PrefixDigits == {"0", "1", "2"}

DigitVal(d) ==
  CASE d = "0" -> 0 [] d = "1" -> 1 [] d = "2" -> 2 [] d = "3" -> 3

\* CIDR.isValidCIDR
isValidCIDR(s) ==
  /\ s # NULL
  /\ Len(s) = 3
  /\ s[1] \in AddrDigits
  /\ s[2] = "/"
  /\ s[3] \in PrefixDigits

IsAddress(s) == Len(s) = 1 /\ s[1] \in AddrDigits

\* new CIDR(c).contains(a), for a valid c
contains(c, a) ==
  /\ IsAddress(a)
  /\ LET shift == 2 ^ (2 - DigitVal(c[3]))
     IN  DigitVal(a[1]) \div shift = DigitVal(c[1]) \div shift

\* ------------------------------------------------------------------ values

\* a row of ip_addresses
Row(id, u, ip, cidr) == [id |-> id, user_id |-> u, ip_address |-> ip, cidr |-> cidr]

\* the value a row carries: the column that is not NULL
ValueOf(r) == IF r.cidr # NULL THEN r.cidr ELSE r.ip_address

\* an in-flight operation.  k: get | insert | delete | page | check | prompt | batch
\*   had : (get) a row of u with value v was stored when the add was issued
\*   n   : (page) the page, (prompt) the message_id Telegram gave the prompt
\*   pend, succ, errs : (batch) the inserts not yet settled, successCount, errorCount
\*   size, ids : (batch) number of candidates at confirmation, ids of the rows inserted
Op(k, c, u) ==
  [k |-> k, c |-> c, u |-> u, v |-> <<>>, isCidr |-> FALSE, had |-> FALSE, n |-> 0,
   pend |-> <<>>, succ |-> 0, errs |-> 0, size |-> 0, ids |-> {}]

NoOp == Op("none", "", "")

\* something sent through the bot API
Msg(kind, c) ==
  [kind |-> kind, c |-> c, v |-> <<>>, w |-> <<>>, u |-> "", isCidr |-> FALSE,
   n |-> 0, m |-> 0, rows |-> <<>>, lines |-> <<>>, kb |-> <<>>]

\* what a step handled.  type: init | message | callback | done
\*   text: the message's text; data: the callback data; op, ok: the operation that
\*   completed and whether it succeeded
Ev(type, c, u, text, data, op, ok) ==
  [type |-> type, c |-> c, u |-> u, text |-> text, data |-> data, op |-> op, ok |-> ok]

\* mutant: the whole map emptied
WithoutAll(f, c) == [x \in {} |-> f[x]]

\* delete obj[c]
Without(f, c) == [x \in DOMAIN f \ {c} |-> f[x]]
\* obj[c] = val
With(f, c, val) == [x \in DOMAIN f \cup {c} |-> IF x = c THEN val ELSE f[x]]

\* the part of the state a synchronous handler reads and writes, threaded through
\* the listeners that one update runs
Handler ==
  [batch |-> batchAddData, listPage |-> listPage, issued |-> <<>>, out |-> <<>>,
   msgSeq |-> msgSeq, threw |-> FALSE]

Send(h, m) == [h EXCEPT !.out = Append(@, m)]
Issue(h, op) == [h EXCEPT !.issued = Append(@, op)]

RECURSIVE SeqToBag(_)
SeqToBag(s) == IF s = <<>> THEN EmptyBag ELSE SetToBag({Head(s)}) (+) SeqToBag(Tail(s))

\* the rows of owner u that the add lookup matches (line 55, bound as on line 57)
LookupParam(input, isCidr) == IF isCidr THEN <<>> ELSE input

LookupMatches(r, u, input, isCidr) ==
  /\ r.user_id = u
  /\ (r.ip_address = input \/ r.cidr = LookupParam(input, isCidr))

\* mutant: DELETE without the user_id condition
DeleteMatchesAnyOwner(r, u, input) == r.ip_address = input \/ r.cidr = input

\* the rows DELETE removes (line 83)
DeleteMatches(r, u, input) ==
  /\ r.user_id = u
  /\ (r.ip_address = input \/ r.cidr = input)

HasValue(s, u, v) == \E i \in 1..Len(s) : s[i].user_id = u /\ ValueOf(s[i]) = v

\* ------------------------------------------------------- message listeners

\* bot.on('message') (lines 224-249): runs for every message, commands included
OnMessage(h, c, text) ==
  IF c \notin DOMAIN h.batch THEN h
  ELSE IF text = NoText THEN [h EXCEPT !.threw = TRUE]
  ELSE IF trim(text) # <<>>
  THEN LET addresses == SplitLines(trim(text))
           h1 == [h EXCEPT !.batch[c].addresses = addresses, !.msgSeq = @ + 1]
           h2 == Send(h1, [Msg("confirmPrompt", c) EXCEPT !.lines = addresses])
       IN  Issue(h2, [Op("prompt", c, "") EXCEPT !.n = h1.msgSeq])
  ELSE LET h1 == Send(h, Msg("noValid", c))
       IN  [h1 EXCEPT !.batch = Without(@, c)]

\* bot.onText(/\/start|\/help/) (lines 45-47)
OnHelp(h, c, text) ==
  IF Matches(text, "/start") \/ Matches(text, "/help")
  THEN Send(h, Msg("help", c)) ELSE h

\* bot.onText(/\/add (.+)/) (lines 49-57): issues the existence lookup
OnAdd(h, c, u, text) ==
  IF ~MatchesArg(text, "/add") THEN h
  ELSE LET input == trim(MatchArg(text, "/add"))
           isCidr == isValidCIDR(input)
       IN  Issue(h, [Op("get", c, u) EXCEPT !.v = input, !.isCidr = isCidr,
                                           !.had = HasValue(store, u, input)])

\* bot.onText(/\/delete (.+)/) (lines 79-83)
OnDelete(h, c, u, text) ==
  IF ~MatchesArg(text, "/delete") THEN h
  ELSE Issue(h, [Op("delete", c, u) EXCEPT !.v = trim(MatchArg(text, "/delete"))])

\* listIpAddresses (lines 103-107): issues the page query
listIpAddresses(h, c, page) == Issue(h, [Op("page", c, "") EXCEPT !.n = page])

\* bot.onText(/\/list/) (lines 97-101)
OnList(h, c, text) ==
  IF ~Matches(text, "/list") THEN h
  ELSE listIpAddresses([h EXCEPT !.listPage = With(@, c, 0)], c, 0)

\* bot.onText(/\/check (.+)/) (lines 179-183)
OnCheck(h, c, text) ==
  IF ~MatchesArg(text, "/check") THEN h
  ELSE Issue(h, [Op("check", c, "") EXCEPT !.v = trim(MatchArg(text, "/check"))])

\* bot.onText(/\/batchadd/) (lines 218-222)
OnBatchAdd(h, c, u, text) ==
  IF ~Matches(text, "/batchadd") THEN h
  ELSE Send([h EXCEPT !.batch = With(@, c, [userId |-> u, addresses |-> <<>>,
                                            messageId |-> 0])],
            Msg("askLines", c))

\* one message update: the 'message' listener, then every onText listener whose
\* expression matches, in the order they were registered
Dispatch(h, c, u, text) ==
  LET h1 == OnMessage(h, c, text)
  IN  IF h1.threw \/ text = NoText THEN h1
      ELSE OnBatchAdd(OnCheck(OnList(OnDelete(OnAdd(OnHelp(h1, c, text),
             c, u, text), c, u, text), c, text), c, text), c, u, text)

\* the state a handler leaves
Commit(h, e, removed) ==
  /\ BagCardinality(ops (-) removed) + Len(h.issued) <= MaxOps
  /\ h.msgSeq <= MaxPrompts
  /\ batchAddData' = h.batch
  /\ listPage' = h.listPage
  /\ ops' = (ops (-) removed) (+) SeqToBag(h.issued)
  /\ msgSeq' = h.msgSeq
  /\ out' = h.out
  /\ threw' = h.threw
  /\ ev' = e

\* ------------------------------------------------------- callback listener

\* `${page}` and parseInt: decimal digits, with a sign
DigitChar(d) ==
  CASE d = 0 -> "0" [] d = 1 -> "1" [] d = 2 -> "2" [] d = 3 -> "3" [] d = 4 -> "4"
    [] d = 5 -> "5" [] d = 6 -> "6" [] d = 7 -> "7" [] d = 8 -> "8" [] d = 9 -> "9"

CharDigit(ch) == CHOOSE d \in 0..9 : DigitChar(d) = ch

RECURSIVE NatToString(_)
NatToString(n) ==
  IF n < 10 THEN <<DigitChar(n)>>
  ELSE NatToString(n \div 10) \o <<DigitChar(n % 10)>>

PageString(n) == IF n < 0 THEN <<"-">> \o NatToString(-n) ELSE NatToString(n)

RECURSIVE ParseNat(_)
ParseNat(s) ==
  IF s = <<>> THEN 0
  ELSE 10 * ParseNat(SubSeq(s, 1, Len(s) - 1)) + CharDigit(s[Len(s)])

parseInt(s) == IF Head(s) = "-" THEN -ParseNat(Tail(s)) ELSE ParseNat(s)

\* callback data, as data.split('_') sees it
PrevToken(page) == <<<<"prev">>, <<"page">>, PageString(page)>>
NextToken(page) == <<<<"next">>, <<"page">>, PageString(page)>>
ConfirmData == <<<<"confirm">>, <<"batch">>, <<"add">>>>
CancelData == <<<<"cancel">>, <<"batch">>, <<"add">>>>

StartsWithPrev(data) == data[1] = <<"prev">> /\ data[2] = <<"page">>
StartsWithNext(data) == data[1] = <<"next">> /\ data[2] = <<"page">>

\* mutant: the confirm branch without the comparison of the acting user
ConfirmAcceptedAnyUser(batch, c, u, data) ==
  /\ data = ConfirmData
  /\ c \in DOMAIN batch

\* the guard of the confirm branch (line 142)
ConfirmAccepted(batch, c, u, data) ==
  /\ data = ConfirmData
  /\ c \in DOMAIN batch
  /\ batch[c].userId = u

\* retract the prompt and clear the pending batch (lines 165-168, 172-175)
ClearBatch(h, c) ==
  IF c \notin DOMAIN h.batch THEN [h EXCEPT !.threw = TRUE]
  ELSE LET h1 == IF h.batch[c].messageId # 0
                 THEN Send(h, [Msg("deleteMessage", c) EXCEPT !.n = h.batch[c].messageId])
                 ELSE h
       IN  [h1 EXCEPT !.batch = Without(@, c)]

\* mutant: the pending batch dereferenced before the summary is sent
BatchSettledDerefFirst(h, job) ==
  IF job.c \notin DOMAIN h.batch THEN [h EXCEPT !.threw = TRUE]
  ELSE ClearBatch(Send(h, [Msg("summary", job.c) EXCEPT !.n = job.succ, !.m = job.errs]),
                  job.c)

\* Promise.all(addPromises).then (lines 163-169)
BatchSettled(h, job) ==
  ClearBatch(Send(h, [Msg("summary", job.c) EXCEPT !.n = job.succ, !.m = job.errs]),
             job.c)

\* the confirm branch (lines 143-169): one insert per candidate, all issued at once
ConfirmBatch(h, c, u) ==
  LET addresses == h.batch[c].addresses
      job == [Op("batch", c, u) EXCEPT !.pend = addresses, !.size = Len(addresses)]
  IN  IF addresses = <<>> THEN BatchSettled(h, job) ELSE Issue(h, job)

\* bot.on('callback_query') (lines 132-177)
OnCallback(h, c, u, data) ==
  IF StartsWithPrev(data) \/ StartsWithNext(data)
  THEN LET page == parseInt(data[3])
           newPage == IF StartsWithPrev(data) THEN page - 1 ELSE page + 1
           h1 == listIpAddresses([h EXCEPT !.listPage = With(@, c, newPage)], c, newPage)
       IN  Send(h1, Msg("answerCallback", c))
  ELSE IF ConfirmAccepted(h.batch, c, u, data) THEN ConfirmBatch(h, c, u)
  ELSE IF data = CancelData THEN ClearBatch(Send(h, Msg("cancelled", c)), c)
  ELSE h

\* ------------------------------------------------------------------ events

\* a message update arrives
Message(c, u, text) ==
  /\ Commit(Dispatch(Handler, c, u, text), Ev("message", c, u, text, <<>>, NoOp, TRUE), EmptyBag)
  /\ UNCHANGED <<store, nextId, tokens>>

\* a callback_query update arrives: a button of the chat was pressed
Callback(c, u, data) ==
  /\ Commit(OnCallback(Handler, c, u, data),
            Ev("callback", c, u, <<>>, data, NoOp, TRUE),
            EmptyBag)
  /\ UNCHANGED <<store, nextId, tokens>>

\* ------------------------------------------------------------- completions

Done(op, ok) == Ev("done", op.c, op.u, <<>>, <<>>, op, ok)

\* the row addEntry inserts (lines 251-255)
NewRow(id, u, input, isCidr) ==
  IF isCidr THEN Row(id, u, NULL, input) ELSE Row(id, u, input, NULL)

RECURSIVE KeptRowsButFirst(_, _, _)
\* mutant: a DELETE that stops at the first row it removes
KeptRowsButFirst(s, u, input) ==
  IF s = <<>> THEN <<>>
  ELSE IF DeleteMatches(Head(s), u, input) THEN Tail(s)
  ELSE <<Head(s)>> \o KeptRowsButFirst(Tail(s), u, input)

RECURSIVE KeptRows(_, _, _)
\* the rows of s that DELETE keeps
KeptRows(s, u, input) ==
  IF s = <<>> THEN <<>>
  ELSE IF DeleteMatches(Head(s), u, input) THEN KeptRows(Tail(s), u, input)
  ELSE <<Head(s)>> \o KeptRows(Tail(s), u, input)

\* mutant: the lookup's error not tested, so that a failed lookup reads as 'no row'
GetCallbackIgnoresError(h, op, ok) ==
  IF ok /\ \E i \in 1..Len(store) : LookupMatches(store[i], op.u, op.v, op.isCidr)
  THEN Send(h, [Msg("already", op.c) EXCEPT !.v = op.v])
  ELSE Issue(h, [Op("insert", op.c, op.u) EXCEPT !.v = op.v, !.isCidr = op.isCidr])

\* the callback of db.get (lines 57-76)
GetCallback(h, op, ok) ==
  IF ~ok THEN Send(h, [Msg("lookupError", op.c) EXCEPT !.v = op.v])
  ELSE IF \E i \in 1..Len(store) : LookupMatches(store[i], op.u, op.v, op.isCidr)
  THEN Send(h, [Msg("already", op.c) EXCEPT !.v = op.v])
  ELSE Issue(h, [Op("insert", op.c, op.u) EXCEPT !.v = op.v, !.isCidr = op.isCidr])

GetDone(op, ok) ==
  /\ op.k = "get"
  /\ Commit(GetCallback(Handler, op, ok), Done(op, ok), SetToBag({op}))
  /\ UNCHANGED <<store, nextId, tokens>>

\* the callback of addEntry in /add (lines 67-74)
InsertCallback(h, op, ok) ==
  IF ~ok THEN Send(h, [Msg("insertError", op.c) EXCEPT !.v = op.v])
  ELSE Send(h, [Msg("added", op.c) EXCEPT !.v = op.v, !.isCidr = op.isCidr])

\* INSERT: the table after a successful insert
Inserted(u, input, isCidr) == Append(store, NewRow(nextId, u, input, isCidr))

InsertDone(op, ok) ==
  /\ op.k = "insert"
  /\ ok => nextId <= MaxRecords
  /\ store' = IF ok THEN Inserted(op.u, op.v, op.isCidr) ELSE store
  /\ nextId' = IF ok THEN nextId + 1 ELSE nextId
  /\ Commit(InsertCallback(Handler, op, ok), Done(op, ok), SetToBag({op}))
  /\ UNCHANGED tokens

\* the callback of DELETE (lines 83-92); changes = rows removed
DeleteCallback(h, op, ok, changes) ==
  IF ~ok THEN Send(h, [Msg("deleteError", op.c) EXCEPT !.v = op.v])
  ELSE IF changes > 0 THEN Send(h, [Msg("deleted", op.c) EXCEPT !.v = op.v])
  ELSE Send(h, [Msg("notFound", op.c) EXCEPT !.v = op.v])

DeleteDone(op, ok) ==
  LET kept == KeptRows(store, op.u, op.v)
  IN  /\ op.k = "delete"
      /\ store' = IF ok THEN kept ELSE store
      /\ Commit(DeleteCallback(Handler, op, ok, Len(store) - Len(kept)), Done(op, ok),
                SetToBag({op}))
      /\ UNCHANGED <<nextId, tokens>>

Min(a, b) == IF a < b THEN a ELSE b
Max(a, b) == IF a < b THEN b ELSE a

\* SELECT * FROM ip_addresses LIMIT ? OFFSET ? (line 107); SQLite reads a negative
\* OFFSET as 0
PageRows(page) ==
  LET offset == Max(page * limit, 0)
  IN  SubSeq(store, offset + 1, Min(offset + limit, Len(store)))

\* mutant: a Previous control on every page
KeyboardPrevAlways(page, rows) ==
  <<PrevToken(page)>> \o (IF Len(rows) = limit THEN <<NextToken(page)>> ELSE <<>>)

\* mutant: a Next control on every page that shows a row
KeyboardNextIfAny(page, rows) ==
  (IF page > 0 THEN <<PrevToken(page)>> ELSE <<>>)
    \o (IF Len(rows) > 0 THEN <<NextToken(page)>> ELSE <<>>)

\* the inline keyboard of a page (lines 115-122)
Keyboard(page, rows) ==
  (IF page > 0 THEN <<PrevToken(page)>> ELSE <<>>)
    \o (IF Len(rows) = limit THEN <<NextToken(page)>> ELSE <<>>)

\* the callback of the page query (lines 107-129)
PageCallback(h, op, ok) ==
  IF ~ok THEN Send(h, Msg("listError", op.c))
  ELSE LET rows == PageRows(op.n)
       IN  Send(h, [Msg(IF rows = <<>> THEN "noEntries" ELSE "page", op.c)
                      EXCEPT !.rows = rows, !.kb = Keyboard(op.n, rows)])

Range(s) == {s[i] : i \in 1..Len(s)}

PageDone(op, ok) ==
  /\ op.k = "page"
  /\ tokens' = IF ok THEN [tokens EXCEPT ![op.c] = @ \cup Range(Keyboard(op.n, PageRows(op.n)))]
               ELSE tokens
  /\ Commit(PageCallback(Handler, op, ok), Done(op, ok), SetToBag({op}))
  /\ UNCHANGED <<store, nextId>>

\* mutant: the block compared with the column the add lookup compares it with
CidrRowMatchesAddress(r, input) == r.ip_address = input

\* the scan for a CIDR input (line 192)
CidrRowMatches(r, input) == r.cidr = input

\* the scan for any other input (line 203)
AddressRowMatches(r, input) ==
  \/ r.ip_address = input
  \/ (isValidCIDR(r.cidr) /\ contains(r.cidr, input))

\* the rows the scan of /check matches
Hits(input) ==
  {i \in 1..Len(store) : IF isValidCIDR(input) THEN CidrRowMatches(store[i], input)
                         ELSE AddressRowMatches(store[i], input)}

\* mutant: a scan that does not break, so that the last match is the one reported
LastMatch(input) ==
  IF Hits(input) = {} THEN 0 ELSE CHOOSE i \in Hits(input) : \A j \in Hits(input) : j <= i

\* the first row of the scan that matches: for ... break
FirstMatch(input) ==
  IF Hits(input) = {} THEN 0 ELSE CHOOSE i \in Hits(input) : \A j \in Hits(input) : i <= j

\* the callback of the scan of /check (lines 183-213)
CheckCallback(h, op, ok) ==
  IF ~ok THEN Send(h, Msg("checkError", op.c))
  ELSE LET i == FirstMatch(op.v)
       IN  IF isValidCIDR(op.v)
           THEN IF i # 0 THEN Send(h, [Msg("cidrExists", op.c) EXCEPT !.v = op.v])
                ELSE Send(h, [Msg("cidrMissing", op.c) EXCEPT !.v = op.v])
           ELSE IF i # 0
                THEN Send(h, [Msg("within", op.c) EXCEPT !.v = op.v, !.w = store[i].cidr,
                                                         !.u = store[i].user_id,
                                                         !.n = store[i].id])
                ELSE Send(h, [Msg("notWithin", op.c) EXCEPT !.v = op.v])

CheckDone(op, ok) ==
  /\ op.k = "check"
  /\ Commit(CheckCallback(Handler, op, ok), Done(op, ok), SetToBag({op}))
  /\ UNCHANGED <<store, nextId, tokens>>

\* .then of the prompt's sendMessage (lines 241-243)
PromptCallback(h, op, ok) ==
  IF ~ok THEN h
  ELSE IF op.c \notin DOMAIN h.batch THEN [h EXCEPT !.threw = TRUE]
  ELSE [h EXCEPT !.batch[op.c].messageId = op.n]

PromptDone(op, ok) ==
  /\ op.k = "prompt"
  /\ Commit(PromptCallback(Handler, op, ok), Done(op, ok), SetToBag({op}))
  /\ UNCHANGED <<store, nextId, tokens>>

RemoveAt(s, i) == SubSeq(s, 1, i - 1) \o SubSeq(s, i + 1, Len(s))

\* mutant: a failed insert counted as a success
CountedAllSucceed(job, i, ok) ==
  [job EXCEPT !.pend = RemoveAt(@, i), !.succ = @ + 1,
              !.ids = IF ok THEN @ \cup {nextId} ELSE @]

\* the callback of one insert of a batch (lines 150-159): count and resolve
Counted(job, i, ok) ==
  IF ok THEN [job EXCEPT !.pend = RemoveAt(@, i), !.succ = @ + 1, !.ids = @ \cup {nextId}]
  ELSE [job EXCEPT !.pend = RemoveAt(@, i), !.errs = @ + 1]

\* whether Promise.all has resolved: every promise of the batch has
AllSettled(job) == job.pend = <<>>

\* one insert of a batch completes; the last one resolves Promise.all
BatchInsertCallback(h, job) ==
  IF AllSettled(job) THEN BatchSettled(h, job) ELSE Issue(h, job)

BatchInsertDone(op, i, ok) ==
  LET address == op.pend[i]
  IN  /\ op.k = "batch"
      /\ ok => nextId <= MaxRecords
      /\ store' = IF ok THEN Inserted(op.u, address, isValidCIDR(address)) ELSE store
      /\ nextId' = IF ok THEN nextId + 1 ELSE nextId
      /\ Commit(BatchInsertCallback(Handler, Counted(op, i, ok)),
                Done([Counted(op, i, ok) EXCEPT !.v = address], ok), SetToBag({op}))
      /\ UNCHANGED tokens

\* --------------------------------------------------------- specifications

\* the texts users send
TxtAdd == <<"/add", " ", "1">>
TxtAddCidr == <<"/add", " ", "0", "/", "1", " ">>
TxtAddBlank == <<"/add", " ", " ">>
TxtDelete == <<"/delete", " ", "1", " ">>
TxtDeleteCidr == <<"/delete", " ", " ", "0", "/", "1">>
TxtList == <<"/list">>
TxtCheck == <<"/check", " ", "1">>
TxtCheckCidr == <<"/check", " ", "0", "/", "1">>
TxtAddOther == <<"/add", " ", "2", "/", "1">>
TxtCheckWord == <<"/check", " ", "x">>
TxtBatchAdd == <<"/batchadd">>
TxtLines == <<"1", "\n", " ", "\n", "1", " ">>
TxtBlank == <<" ">>
TxtHelp == <<"/help">>

Chats == {"c1"}

Init ==
  /\ store = <<>>
  /\ nextId = 1
  /\ listPage = <<>>
  /\ batchAddData = <<>>
  /\ ops = EmptyBag
  /\ msgSeq = 0
  /\ tokens = [c \in AllChats |-> {}]
  /\ out = <<>>
  /\ ev = Ev("init", "", "", <<>>, <<>>, NoOp, TRUE)
  /\ threw = FALSE

\* one specification per feature, each over the same actions: the texts and
\* buttons its users send, and the completions those can start

\* /add and /delete
AddTexts == {TxtAdd, TxtAddCidr, TxtAddBlank, TxtDelete, TxtDeleteCidr}

NextAdd ==
  \/ \E c \in Chats, u \in Users, text \in AddTexts : Message(c, u, text)
  \/ \E op \in BagToSet(ops), ok \in BOOLEAN : GetDone(op, ok)
  \/ \E op \in BagToSet(ops), ok \in BOOLEAN : InsertDone(op, ok)
  \/ \E op \in BagToSet(ops), ok \in BOOLEAN : DeleteDone(op, ok)

SpecAdd == Init /\ [][NextAdd]_vars

\* /check, over what /add and /delete leave in the table
CheckTexts == {TxtAdd, TxtAddCidr, TxtAddOther, TxtDelete, TxtCheck, TxtCheckCidr,
               TxtCheckWord}

NextCheck ==
  \/ \E c \in Chats, u \in Users, text \in CheckTexts : Message(c, u, text)
  \/ \E op \in BagToSet(ops), ok \in BOOLEAN : GetDone(op, ok)
  \/ \E op \in BagToSet(ops), ok \in BOOLEAN : InsertDone(op, ok)
  \/ \E op \in BagToSet(ops), ok \in BOOLEAN : DeleteDone(op, ok)
  \/ \E op \in BagToSet(ops), ok \in BOOLEAN : CheckDone(op, ok)

SpecCheck == Init /\ [][NextCheck]_vars

\* /batchadd, its input and its buttons
BatchTexts == {TxtBatchAdd, TxtLines, TxtBlank, NoText}

NextBatch ==
  \/ \E c \in Chats, u \in Users, text \in BatchTexts : Message(c, u, text)
  \/ \E c \in Chats, u \in Users, data \in {ConfirmData, CancelData} : Callback(c, u, data)
  \/ \E op \in BagToSet(ops), ok \in BOOLEAN : PromptDone(op, ok)
  \/ \E op \in BagToSet(ops), ok \in BOOLEAN :
       \E i \in 1..Len(op.pend) : BatchInsertDone(op, i, ok)

SpecBatch == Init /\ [][NextBatch]_vars

\* /list and its buttons, over a database.db that already holds rows: row i was
\* added by u1 (odd i) or u2 (even i) and carries the two digits of i, row 7 a block
StoredRow(i) ==
  IF i = 7 THEN Row(i, "u1", NULL, <<"2", "/", "1">>)
  ELSE Row(i, IF i % 2 = 1 THEN "u1" ELSE "u2", <<DigitChar(i \div 10), DigitChar(i % 10)>>, NULL)

Stored(n) == [i \in 1..n |-> StoredRow(i)]

InitList ==
  /\ \E n \in 0..MaxStored : store = Stored(n) /\ nextId = n + 1
  /\ listPage = <<>>
  /\ batchAddData = <<>>
  /\ ops = EmptyBag
  /\ msgSeq = 0
  /\ tokens = [c \in AllChats |-> {}]
  /\ out = <<>>
  /\ ev = Ev("init", "", "", <<>>, <<>>, NoOp, TRUE)
  /\ threw = FALSE

TxtDeleteRow == <<"/delete", " ", "0", "3">>

NextList ==
  \/ \E c \in Chats, u \in Users, text \in {TxtList, TxtDeleteRow, TxtHelp} :
       Message(c, u, text)
  \/ \E c \in Chats, u \in Users : \E data \in tokens[c] : Callback(c, u, data)
  \/ \E op \in BagToSet(ops), ok \in BOOLEAN : PageDone(op, ok)
  \/ \E op \in BagToSet(ops), ok \in BOOLEAN : DeleteDone(op, ok)

SpecList == InitList /\ [][NextList]_vars

\* ------------------------------------------------------------------ claims

\* the rows of owner u that carry the value v
RowsOf(u, v) == {i \in 1..Len(store) : store[i].user_id = u /\ ValueOf(store[i]) = v}

LookupDone == ev.type = "done" /\ ev.op.k = "get" /\ ev.ok

\* C1: an add of a value the owner had stored when the add was issued, and still has
\* when the lookup runs, replies 'already added', and the owner has one row of it.
C1_SecondAddAlreadyAdded ==
  (LookupDone /\ ev.op.had /\ RowsOf(ev.op.u, ev.op.v) # {})
    => /\ out = <<[Msg("already", ev.c) EXCEPT !.v = ev.op.v]>>
       /\ Cardinality(RowsOf(ev.op.u, ev.op.v)) = 1

\* C2: no owner has two rows carrying the same value.
C2_UniquePerOwner ==
  \A i, j \in 1..Len(store) :
    (store[i].user_id = store[j].user_id /\ ValueOf(store[i]) = ValueOf(store[j])) => i = j

CancelStep == ev'.type = "callback" /\ ev'.data = CancelData

\* C3: a cancel in a chat that has no pending batch raises no error and changes
\* neither the pending batches, the cursors nor the table.
C3_CancelWithoutBatchIsNoOp ==
  [][(CancelStep /\ ev'.c \notin DOMAIN batchAddData)
       => (~threw' /\ UNCHANGED <<batchAddData, listPage, store>>)]_vars

ForeignConfirm(e, batch) ==
  /\ e.type = "callback"
  /\ e.data = ConfirmData
  /\ e.c \in DOMAIN batch
  /\ batch[e.c].userId # e.u

\* C4: a confirm from a user who is not the batch's owner changes nothing, sends
\* nothing, and leaves the owner's confirm acceptable.
C4_ForeignConfirmIgnored ==
  [][ForeignConfirm(ev', batchAddData)
       => /\ UNCHANGED <<batchAddData, store, nextId, listPage, ops, msgSeq, tokens>>
          /\ out' = <<>>
          /\ ~threw'
          /\ ConfirmAccepted(batchAddData', ev'.c, batchAddData[ev'.c].userId, ConfirmData)]_vars

C4_Witness ==
  /\ ForeignConfirm(ev, batchAddData)
  /\ batchAddData[ev.c].addresses # <<>>
  /\ batchAddData[ev.c].messageId # 0

IsSummary(m) == m.kind = "summary"
BatchStep(e) == e.type = "done" /\ e.op.k = "batch"

\* the summary is sent by the step that settles the last insert of a batch (or by
\* the confirm of a batch without candidates), and counts what the batch did
SummaryCounts ==
  \A x \in 1..Len(out) :
    IsSummary(out[x]) =>
      IF BatchStep(ev)
      THEN /\ ev.op.pend = <<>>
           /\ out[x].n + out[x].m = ev.op.size
           /\ out[x].n = Cardinality(ev.op.ids)
           /\ out[x].n = ev.op.succ
      ELSE /\ ev.type = "callback" /\ ev.data = ConfirmData
           /\ out[x].n = 0 /\ out[x].m = 0

\* a settled insert of a batch adds exactly its row, owned by the user who
\* confirmed, or (failed) leaves the table as it is
InsertsIndependent ==
  BatchStep(ev') =>
    IF ev'.ok
    THEN /\ store' = Append(store, NewRow(nextId, ev'.u, ev'.op.v, isValidCIDR(ev'.op.v)))
         /\ nextId \in ev'.op.ids
    ELSE store' = store

\* C5: the summary of a batch of K candidates comes after all K inserts settled,
\* with N + M = K and N the number of rows the batch added; an insert that fails
\* neither stops nor undoes another.
C5_BatchPartialFailure == []SummaryCounts /\ [][InsertsIndependent]_vars

C5_Witness ==
  /\ BatchStep(ev)
  /\ \E x \in 1..Len(out) : IsSummary(out[x]) /\ out[x].n = 1 /\ out[x].m = 1
  /\ ev.op.size = 2

PageOf(e) == e.type = "done" /\ e.op.k = "page" /\ e.ok

\* the rows at positions 10p .. min(10p + 10, n) - 1, counted from 0
Expected(p) ==
  LET hi == IF 10 * p + 10 < Len(store) THEN 10 * p + 10 ELSE Len(store)
  IN  [k \in 1..(IF hi > 10 * p THEN hi - 10 * p ELSE 0) |-> store[10 * p + k]]

\* C6: page p >= 0 of n rows shows the rows at positions 10p .. min(10p+10, n)-1 in
\* ascending id order, or 'No entries found.', with Previous iff p > 0 and Next iff
\* ten rows are shown.
C6_PageRendering ==
  /\ \A i, j \in 1..Len(store) : i < j => store[i].id < store[j].id
  /\ (PageOf(ev) /\ ev.op.n >= 0) =>
       LET p == ev.op.n
       IN  /\ Len(out) = 1
           /\ out[1].rows = Expected(p)
           /\ out[1].kind = (IF Expected(p) = <<>> THEN "noEntries" ELSE "page")
           /\ out[1].c = ev.c
           /\ \A x \in 1..Len(out[1].kb) : out[1].kb[x] \in {PrevToken(p), NextToken(p)}
           /\ (\E x \in 1..Len(out[1].kb) : out[1].kb[x] = PrevToken(p)) <=> p > 0
           /\ (\E x \in 1..Len(out[1].kb) : out[1].kb[x] = NextToken(p))
                 <=> Len(out[1].rows) = 10
           /\ (Len(store) = 25 /\ p = 0) =>
                 (Len(out[1].rows) = 10 /\ out[1].kb = <<NextToken(0)>>)
           /\ (Len(store) = 25 /\ p = 2) =>
                 (Len(out[1].rows) = 5 /\ out[1].kb = <<PrevToken(2)>>)

C6_Witness ==
  /\ PageOf(ev) /\ ev.op.n = 2
  /\ Len(store) = 25
  /\ Len(out[1].rows) = 5
  /\ out[1].kb = <<PrevToken(2)>>

CheckOf(e) == e.type = "done" /\ e.op.k = "check" /\ e.ok

\* the addresses of a valid block, enumerated
Network(c) ==
  LET size == 2 ^ (2 - DigitVal(c[3]))
      base == (DigitVal(c[1]) \div size) * size
  IN  {<<DigitChar(n)>> : n \in base..(base + size - 1)}

\* the rows that hold a, as an address or in their block
Holding(a) ==
  {i \in 1..Len(store) :
     \/ store[i].ip_address = a
     \/ (store[i].cidr # NULL /\ isValidCIDR(store[i].cidr) /\ a \in Network(store[i].cidr))}

LowestId(S) == CHOOSE i \in S : \A j \in S : store[i].id <= store[j].id

\* C7: a check of an input that is no CIDR block names the owner and block of the
\* lowest-id row holding it, in one reply, or says that none does.
C7_CheckFirstMatch ==
  (CheckOf(ev) /\ ~isValidCIDR(ev.op.v)) =>
    LET a == ev.op.v
    IN  IF Holding(a) = {}
        THEN out = <<[Msg("notWithin", ev.c) EXCEPT !.v = a]>>
        ELSE out = <<[Msg("within", ev.c) EXCEPT !.v = a,
                        !.w = store[LowestId(Holding(a))].cidr,
                        !.u = store[LowestId(Holding(a))].user_id,
                        !.n = store[LowestId(Holding(a))].id]>>

C7_Witness ==
  /\ CheckOf(ev) /\ IsAddress(ev.op.v)
  /\ \E i, j \in Holding(ev.op.v) :
       i < j /\ store[i].user_id # store[j].user_id /\ store[j].cidr # NULL
  /\ \E i \in 1..Len(store) : store[i].cidr # NULL /\ i \notin Holding(ev.op.v)

DeleteOf(e) == e.type = "done" /\ e.op.k = "delete" /\ e.ok

\* C8: a delete of a value its owner has no row of replies 'no entry found', raises
\* nothing and leaves the table as it is.
C8_DeleteAbsent ==
  [][(DeleteOf(ev') /\ RowsOf(ev'.u, ev'.op.v) = {})
       => /\ out' = <<[Msg("notFound", ev'.c) EXCEPT !.v = ev'.op.v]>>
          /\ ~threw'
          /\ store' = store]_vars

C8_Witness ==
  /\ DeleteOf(ev)
  /\ out = <<[Msg("notFound", ev.c) EXCEPT !.v = ev.op.v]>>
  /\ \E i \in 1..Len(store) : ValueOf(store[i]) = ev.op.v /\ store[i].user_id # ev.u

\* C9: no row carries the empty value and no insert of it is issued.
C9_NoEmptyValue ==
  /\ \A i \in 1..Len(store) : ValueOf(store[i]) # <<>>
  /\ \A op \in BagToSet(ops) : op.k = "insert" => op.v # <<>>

Populated(x) == x # NULL /\ x # <<>>

RowShape(r) ==
  /\ Populated(r.ip_address) # Populated(r.cidr)
  /\ Populated(r.cidr) <=> isValidCIDR(ValueOf(r))

\* a row that stays in the table stays as it was
RowsNotMutated ==
  \A i \in 1..Len(store), j \in 1..Len(store') : store[i].id = store'[j].id => store[i] = store'[j]

\* C10: every row has exactly one of ip_address and cidr populated, cidr when the
\* value is a valid block, and no row is changed after it is inserted.
C10_RecordShape == [](\A i \in 1..Len(store) : RowShape(store[i])) /\ [][RowsNotMutated]_vars

PagingStep(e) == e.type = "callback" /\ (StartsWithPrev(e.data) \/ StartsWithNext(e.data))

\* C11: a Next activation leaves the chat's stored cursor one above what it was
\* just before, a Previous activation one below, on whichever page message the
\* control was, and the page fetched is the new stored cursor.
C11_CursorStepsByOne ==
  [][(PagingStep(ev') /\ ev'.c \in DOMAIN listPage)
       => /\ listPage'[ev'.c] =
               listPage[ev'.c] + (IF StartsWithNext(ev'.data) THEN 1 ELSE -1)
          /\ \E op \in BagToSet(ops' (-) ops) : op.k = "page" /\ op.n = listPage'[ev'.c]]_vars

\* a plain message: text that holds no command
Plain(text) ==
  /\ text # NoText
  /\ \A i \in 1..Len(text) :
       text[i] \notin {"/add", "/delete", "/list", "/check", "/batchadd", "/help", "/start"}

PlainStep(e) == e.type = "message" /\ Plain(e.text)

\* C12: a plain message is batch input only while the chat awaits it: with no
\* pending batch it changes nothing and sends nothing; with candidates already
\* stored it leaves them as they are and sends no new prompt; with a pending batch
\* that has no candidates yet, its non-empty trimmed lines become the candidates.
C12_PlainMessageCollection ==
  [][PlainStep(ev') =>
       LET c == ev'.c
       IN  IF c \notin DOMAIN batchAddData
           THEN UNCHANGED <<batchAddData, listPage, store, ops>> /\ out' = <<>>
           ELSE IF batchAddData[c].addresses # <<>>
           THEN /\ c \in DOMAIN batchAddData'
                /\ batchAddData'[c].addresses = batchAddData[c].addresses
                /\ \A x \in 1..Len(out') : out'[x].kind # "confirmPrompt"
           ELSE SplitLines(ev'.text) # <<>> =>
                  /\ c \in DOMAIN batchAddData'
                  /\ batchAddData'[c].addresses = SplitLines(ev'.text)]_vars

\* /batchadd under fair completion of the inserts: sqlite3 runs every queued
\* statement and calls its callback
BatchInsertsSettle ==
  \E op \in BagToSet(ops), ok \in BOOLEAN :
    \E i \in 1..Len(op.pend) : BatchInsertDone(op, i, ok)

SpecBatchFair == SpecBatch /\ WF_vars(BatchInsertsSettle)

InsertsInFlight == \E op \in BagToSet(ops) : op.k = "batch"

\* the step that settled the last insert of a batch sent the summary of all its
\* candidates and left the chat without a pending batch
SettledIdle ==
  /\ BatchStep(ev)
  /\ ev.op.pend = <<>>
  /\ \E x \in 1..Len(out) : IsSummary(out[x]) /\ out[x].n + out[x].m = ev.op.size
  /\ ev.c \notin DOMAIN batchAddData

FailedLookup(e) == e.type = "done" /\ e.op.k = "get" /\ ~e.ok
FailedInsert(e) == e.type = "done" /\ e.op.k = "insert" /\ ~e.ok

\* C14: a failed lookup of an add issues no insert, a failed insert adds no row,
\* and either sends the one error message of its kind and nothing else, leaving
\* the table, the pending batches and the cursors as they were.
C14_AddStorageError ==
  [][(FailedLookup(ev') \/ FailedInsert(ev'))
       => /\ out' = <<[Msg(IF FailedLookup(ev') THEN "lookupError" ELSE "insertError", ev'.c)
                         EXCEPT !.v = ev'.op.v]>>
          /\ ops' = ops (-) SetToBag({ev'.op})
          /\ ~threw'
          /\ UNCHANGED <<store, nextId, batchAddData, listPage>>]_vars

\* a failed insert of a value while the table holds a row
C14_Witness ==
  /\ FailedInsert(ev)
  /\ out = <<[Msg("insertError", ev.c) EXCEPT !.v = ev.op.v]>>
  /\ store # <<>>

\* whether row r belongs to owner u and has v in one of its two columns
OwnedWith(r, u, v) == r.user_id = u /\ (r.ip_address = v \/ r.cidr = v)

\* the positions of the rows of s that delete(u, v) must not touch
Others(s, u, v) == {i \in 1..Len(s) : ~OwnedWith(s[i], u, v)}

\* C15: a delete removes every row of its owner that has the value in ip_address
\* or cidr and no other row: the rows of other owners and the owner's rows of
\* other values stay, in their order; it replies 'deleted' iff it removed a row.
C15_DeleteOwnerScoped ==
  [][DeleteOf(ev') =>
       LET u == ev'.u
           v == ev'.op.v
       IN  /\ \A j \in 1..Len(store') : ~OwnedWith(store'[j], u, v)
           /\ Len(store') = Cardinality(Others(store, u, v))
           /\ \A i \in Others(store, u, v) :
                store'[Cardinality({k \in Others(store, u, v) : k <= i})] = store[i]
           /\ out' = <<[Msg(IF Len(store') < Len(store) THEN "deleted" ELSE "notFound", ev'.c)
                          EXCEPT !.v = v]>>]_vars

\* a delete that emptied the table of its owner's rows and left another owner's
\* row of the same value
C15_Witness ==
  /\ DeleteOf(ev)
  /\ out = <<[Msg("deleted", ev.c) EXCEPT !.v = ev.op.v]>>
  /\ nextId = 4
  /\ Len(store) = 1
  /\ ValueOf(store[1]) = ev.op.v
  /\ store[1].user_id # ev.u

\* two chats, each with /list and its buttons and /batchadd, its input and its
\* buttons, over a table that fills one page
InitIso ==
  /\ store = Stored(limit)
  /\ nextId = limit + 1
  /\ listPage = <<>>
  /\ batchAddData = <<>>
  /\ ops = EmptyBag
  /\ msgSeq = 0
  /\ tokens = [c \in AllChats |-> {}]
  /\ out = <<>>
  /\ ev = Ev("init", "", "", <<>>, <<>>, NoOp, TRUE)
  /\ threw = FALSE

TxtOne == <<" ", "2">>
IsoTexts == {TxtList, TxtBatchAdd, TxtOne}
IsoUsers == {"u1"}

NextIso ==
  \/ \E c \in AllChats, u \in IsoUsers, text \in IsoTexts : Message(c, u, text)
  \/ \E c \in AllChats, u \in IsoUsers :
       \E data \in tokens[c] \cup {ConfirmData, CancelData} : Callback(c, u, data)
  \/ \E op \in BagToSet(ops), ok \in BOOLEAN : PageDone(op, ok)
  \/ \E op \in BagToSet(ops), ok \in BOOLEAN : PromptDone(op, ok)
  \/ \E op \in BagToSet(ops), ok \in BOOLEAN :
       \E i \in 1..Len(op.pend) : BatchInsertDone(op, i, ok)

SpecIso == InitIso /\ [][NextIso]_vars

\* what chat y has of map f
Of(f, y) == IF y \in DOMAIN f THEN <<f[y]>> ELSE <<>>

\* C16: a step that handles an event of chat x, or a completion started in chat
\* x, leaves the pending batch and the cursor of every other chat as they were.
C16_ChatIsolation ==
  [][\A y \in AllChats :
       y # ev'.c => /\ Of(batchAddData', y) = Of(batchAddData, y)
                    /\ Of(listPage', y) = Of(listPage, y)]_vars

\* a batch of chat c1 settles and is cleared while chat c2 has a pending batch
\* with candidates and a cursor
C16_Witness ==
  /\ BatchStep(ev) /\ ev.op.pend = <<>> /\ ev.c = "c1"
  /\ "c1" \notin DOMAIN batchAddData
  /\ "c2" \in DOMAIN batchAddData
  /\ batchAddData["c2"].addresses # <<>>
  /\ "c2" \in DOMAIN listPage

\* the confirmations in flight that carry candidates
Executions == {op \in BagToSet(ops) : op.k = "batch" /\ op.size > 0}

\* C17: a pending batch is executed at most once.  While one confirmation prompt
\* has been sent, one batch has had candidates, and at most one confirmation with
\* candidates is in flight, however often its owner's confirm is delivered.
C17_BatchExecutedOnce ==
  msgSeq = 1 => /\ Cardinality(Executions) <= 1
                /\ \A op \in Executions : CopiesIn(op, ops) = 1

DeferredStep(e) ==
  /\ e.type = "done"
  /\ \/ e.op.k = "prompt" /\ e.ok
     \/ e.op.k = "batch" /\ e.op.pend = <<>>

\* C18: when the completion that records the prompt's message id runs, or the
\* cleanup after the summary, the chat's pending batch is present and the
\* completion raises nothing.
C18_DeferredOnOwnBatch ==
  [][DeferredStep(ev') => (ev'.c \in DOMAIN batchAddData /\ ~threw')]_vars

\* C19: with only buttons the bot attached to a page it rendered being pressed,
\* every chat's stored cursor is an integer >= 0 and no page query in flight has a
\* negative page, hence no negative offset.
C19_CursorNotNegative ==
  /\ \A c \in DOMAIN listPage : listPage[c] \in Nat
  /\ \A op \in BagToSet(ops) : op.k = "page" => (op.n \in Nat /\ op.n * limit >= 0)

\* Previous pressed on page 1: the cursor is back at 0
C19_Witness ==
  /\ PagingStep(ev)
  /\ ev.data = PrevToken(1)
  /\ listPage[ev.c] = 0

\* the rows that carry the value v
Carrying(v) == {i \in 1..Len(store) : ValueOf(store[i]) = v}

\* C20: while a row added with value v is stored, a check of v by anyone is
\* answered positively: 'exists in your records' when v is a valid block, 'is
\* within' when it is not; never 'does not exist' or 'not within any stored CIDR'.
C20_AddCheckRoundTrip ==
  (CheckOf(ev) /\ ev.op.v # <<>> /\ Carrying(ev.op.v) # {}) =>
    /\ Len(out) = 1
    /\ out[1].kind = (IF isValidCIDR(ev.op.v) THEN "cidrExists" ELSE "within")
    /\ out[1].v = ev.op.v
    /\ out[1].c = ev.c

\* a check of a block that is stored behind a row of another value
C20_Witness ==
  /\ CheckOf(ev)
  /\ isValidCIDR(ev.op.v)
  /\ out = <<[Msg("cidrExists", ev.c) EXCEPT !.v = ev.op.v]>>
  /\ Carrying(ev.op.v) # {}
  /\ 1 \notin Carrying(ev.op.v)

====
